---- MODULE Spec2Model ----
(***************************************************************************)
(* Country Information Agent: the country resolver (fetch_country_info),   *)
(* and the three-node pipeline identify_intent -> invoke_tool ->           *)
(* synthesize_answer driven by the /query handler.                         *)
(***************************************************************************)
EXTENDS Integers, Sequences, FiniteSets, TLC

(***************************************************************************)
(* Bounds of the model.                                                    *)
(***************************************************************************)
\* longest record list the fullText (exact) query answers with
MaxExact == 2
\* longest candidate list the partial query answers with
MaxCandidates == 3
\* the longest list the data source answers with when the resolver is called
\* again and again, and the most calls and cache clears of such a run
MaxListed == 1
MaxCalls == 3

(***************************************************************************)
(* Strings are sequences of one-character strings, so that str.lower() is  *)
(* computed character by character.                                        *)
(***************************************************************************)
LowerChar(c) ==
    CASE c = "A" -> "a"
      [] c = "B" -> "b"
      [] c = "C" -> "c"
      [] OTHER -> c

\* str.lower()
Lower(s) == [i \in 1..Len(s) |-> LowerChar(s[i])]

\* dict.get(key, default)
Get(d, k, default) == IF k \in DOMAIN d THEN d[k] ELSE default

\* the empty dict {} and the empty string ""
EmptyDict == <<>>
EmptyStr == <<>>

(***************************************************************************)
(* JSON values the data source answers with.  A list item is a JSON object *)
(* (a dict: a function from keys to values, keys may be missing) or some   *)
(* other JSON value, on which .get raises AttributeError.                  *)
(***************************************************************************)
Obj(d) == [type |-> "dict", value |-> d]
NotObj == [type |-> "str", value |-> EmptyDict]

\* the names the resolver is asked for
QueryNames == { <<"A", "b">>, <<"c">> }

\* common name equals the query "Ab" up to case
RecCommon ==
    Obj([cca |-> "r1",
         name |-> [common |-> <<"A", "B">>, official |-> <<"A", "B", "c">>],
         altSpellings |-> << <<"A">> >>])
\* official name equals the query "Ab" up to case, common name the query "c";
\* no altSpellings key
RecOfficial ==
    Obj([cca |-> "r2",
         name |-> [common |-> <<"C">>, official |-> <<"a", "b">>]])
\* a near-duplicate: the query "Ab" is a proper part of its names, and its
\* alternate spellings equal the queries up to case
RecAlt ==
    Obj([cca |-> "r3",
         name |-> [common |-> <<"A", "b", "c">>, official |-> <<"c", "A", "b">>],
         altSpellings |-> << <<"C">>, <<"a", "b">> >>])
\* matches nothing; no name key at all
RecOther ==
    Obj([cca |-> "r4", altSpellings |-> << <<"A", "b", "c">> >>])

Items == {RecCommon, RecOfficial, RecAlt, RecOther, NotObj}

ListsUpTo(n) == UNION { [1..k -> Items] : k \in 0..n }

\* what response.json() gives: a list, another JSON value, or no JSON at all
\* (json() raises)
BodyList(l) == [kind |-> "list", items |-> l]
BodyObject == [kind |-> "object", items |-> <<>>]
BodyInvalid == [kind |-> "invalid", items |-> <<>>]

Bodies(n) == { BodyList(l) : l \in ListsUpTo(n) } \cup {BodyObject, BodyInvalid}

\* what client.get does: it answers with a status code and a body, or raises
\* httpx.RequestError (timeout, connection error), or raises something else
Response(code, body) == [kind |-> "response", status |-> code, body |-> body, exc |-> "none"]
Raises(e) == [kind |-> "raise", status |-> 0, body |-> BodyInvalid, exc |-> e]

RequestErrors == {"ConnectTimeout", "ConnectError"}
OtherErrors == {"InvalidURL"}

Outcomes(n) ==
    { Response(200, b) : b \in Bodies(n) }
    \cup { Response(404, BodyObject), Response(500, BodyInvalid) }
    \cup { Raises(e) : e \in RequestErrors \cup OtherErrors }

(***************************************************************************)
(* Results and messages of fetch_country_info.                             *)
(***************************************************************************)
Msg(text, name, code, detail) ==
    [text |-> text, name |-> name, code |-> code, detail |-> detail]

Success(country) == [status |-> "success", data |-> country]
Failure(m) == [status |-> "error", message |-> m]
\* an exception leaving the function
Raised(e) == [status |-> "raised", exc |-> e]
\* no call made yet
NoResult == [status |-> "none"]

NotFoundMsg(country_name) == Msg("Country '{country_name}' not found.", country_name, 0, "")
NoDataMsg == Msg("No data found for this country.", EmptyStr, 0, "")
ApiErrorMsg(code) == Msg("API Error: {status_code}", EmptyStr, code, "")
NetworkErrorMsg(e) == Msg("Network error occurred: {e}", EmptyStr, 0, e)
UnexpectedErrorMsg(e) == Msg("An unexpected error occurred: {e}", EmptyStr, 0, e)

Min(S) == CHOOSE x \in S : \A y \in S : x <= y

(***************************************************************************)
(* fetch_country_info, src/app/tools.py.                                   *)
(***************************************************************************)
\* the test of the first loop, on one dict of the candidate list
NameMatchesCaseSensitive(country, country_name) ==
    LET name == Get(country, "name", EmptyDict)
    IN  \/ Get(name, "common", EmptyStr) = country_name
        \/ Get(name, "official", EmptyStr) = country_name

NameMatches(country, country_name) ==
    LET name == Get(country, "name", EmptyDict)
        common == Lower(Get(name, "common", EmptyStr))
        official == Lower(Get(name, "official", EmptyStr))
        query_lower == Lower(country_name)
    IN  common = query_lower \/ official = query_lower

\* the test of the second loop
AltMatches(country, country_name) ==
    LET spellings == Get(country, "altSpellings", <<>>)
        alt == [i \in 1..Len(spellings) |-> Lower(spellings[i])]
    IN  \E i \in 1..Len(alt) : alt[i] = Lower(country_name)

\* data[0] of the exact answer
PickExactLast(data) == data[Len(data)]

PickExact(data) == data[1]

\* data[0], the default of the partial answer
PickDefaultLast(data) == data[Len(data)]

PickDefault(data) == data[1]

\* the order of the two loops: names first, alternate spellings second
LoopsAltFirst(data, country_name) ==
    LET alts == { i \in 1..Len(data) :
                    data[i].type = "dict" /\ AltMatches(data[i].value, country_name) }
        names == { i \in 1..Len(data) :
                    data[i].type = "dict" /\ NameMatches(data[i].value, country_name) }
    IN  IF alts # {} THEN Success(data[Min(alts)])
        ELSE IF names # {} THEN Success(data[Min(names)])
        ELSE Success(PickDefault(data))

\* "Filter for best match" over a non-empty list: the first loop stops at the
\* first item that is no dict (AttributeError) or whose name matches; the
\* second at the first item with a matching alternate spelling
BestMatch(data, country_name) ==
    LET stop1 == { i \in 1..Len(data) :
                     \/ data[i].type # "dict"
                     \/ NameMatches(data[i].value, country_name) }
        stop2 == { i \in 1..Len(data) : AltMatches(data[i].value, country_name) }
    IN  IF stop1 # {}
        THEN IF data[Min(stop1)].type # "dict"
             THEN Raised("AttributeError")
             ELSE Success(data[Min(stop1)])
        ELSE IF stop2 # {}
             THEN Success(data[Min(stop2)])
             ELSE Success(PickDefault(data))

\* the branches on the partial response
PartialBranch(country_name, partial) ==
    IF partial.kind = "raise" THEN Raised(partial.exc)
    ELSE IF partial.status = 200
    THEN IF partial.body.kind = "invalid" THEN Raised("JSONDecodeError")
         ELSE IF partial.body.kind = "list" /\ Len(partial.body.items) > 0
         THEN BestMatch(partial.body.items, country_name)
         ELSE Failure(NoDataMsg)
    ELSE IF partial.status = 404
    THEN Failure(NotFoundMsg(country_name))
    ELSE Failure(ApiErrorMsg(partial.status))

\* the body of the try block: the result (or the exception raised) and the
\* requests sent to the data source, in order
TryBody(country_name, exact, partial) ==
    IF exact.kind = "raise"
    THEN [result |-> Raised(exact.exc), requests |-> <<"exact">>]
    ELSE IF exact.status = 200 /\ exact.body.kind = "invalid"
    THEN [result |-> Raised("JSONDecodeError"), requests |-> <<"exact">>]
    ELSE IF /\ exact.status = 200
            /\ exact.body.kind = "list"
            /\ Len(exact.body.items) > 0
    THEN [result |-> Success(PickExact(exact.body.items)), requests |-> <<"exact">>]
    ELSE [result |-> PartialBranch(country_name, partial),
          requests |-> <<"exact", "partial">>]

\* every exception of the model derives from Exception
IsException(e) == e \in RequestErrors \cup OtherErrors \cup {"JSONDecodeError", "AttributeError"}

\* the two except clauses
HandlersRequestErrorOnly(r) ==
    IF r.status = "raised" /\ r.exc \in RequestErrors
    THEN Failure(NetworkErrorMsg(r.exc))
    ELSE r

Handlers(r) ==
    IF r.status # "raised" THEN r
    ELSE IF r.exc \in RequestErrors THEN Failure(NetworkErrorMsg(r.exc))
    ELSE IF IsException(r.exc) THEN Failure(UnexpectedErrorMsg(r.exc))
    ELSE r

fetch_country_info(country_name, exact, partial) ==
    LET body == TryBody(country_name, exact, partial)
    IN  [result |-> Handlers(body.result), requests |-> body.requests]

(***************************************************************************)
(* The pipeline: what the nodes read and write.                            *)
(***************************************************************************)
Sessions == {"s1", "s2"}
Questions == {"What is the capital of Ab?", "Hello"}

\* what the language model may answer to the classification call: any
\* string as intent (IntentSchema.intent is a str), any list of strings
\* the labels the description of IntentSchema.intent and the system prompt
\* name
IntentEnum ==
    {"get_population", "get_capital", "get_currency", "get_language",
     "get_flag", "general_info", "comparison", "unknown"}

\* "get_weather" is a str, and no label of the above
ModelIntents == {"unknown", "get_capital", "get_weather"}
CountryLists ==
    { <<>>,
      << <<"A", "b">> >>,
      << <<"A", "b">>, <<"c">> >>,
      << EmptyStr, <<"A", "b">> >>,
      << EmptyStr >>,
      << <<"A", "b">>, <<"A", "b">> >> }

\* an exception of the classification call: the model call failed, or its
\* output did not validate against IntentSchema
ClassifyFailures == {"APIError", "ValidationError"}

\* what the classification call gives: an IntentSchema, or an exception
ClassifyOutcomes ==
    { [ok |-> TRUE, intent |-> i, countries |-> c, exc |-> "none"] :
          i \in ModelIntents, c \in CountryLists }
    \cup { [ok |-> FALSE, intent |-> "None", countries |-> <<>>, exc |-> e] :
          e \in ClassifyFailures }

\* what the data source may answer during one resolver call of the pipeline
PipelineSources ==
    { [exact |-> Response(200, BodyList(<<RecCommon>>)),
       partial |-> Response(404, BodyObject)],
      [exact |-> Response(404, BodyObject),
       partial |-> Response(404, BodyObject)],
      [exact |-> Raises("ConnectTimeout"),
       partial |-> Response(404, BodyObject)] }

\* chat messages
HumanMessage(content) == [role |-> "human", content |-> content]
AIMessage(content) == [role |-> "ai", content |-> content]

\* texts: the user's question, what the model generates from a prompt and
\* its data context, and the texts written in the code
QuestionText(q) == [kind |-> "question", text |-> q]
GeneratedText(prompt, data) == [kind |-> "generated", prompt |-> prompt, data |-> data]
GreetingFallbackText == [kind |-> "Hello! I'm your Country Information Agent. ..."]
ErrorsText(errors) == [kind |-> "I couldn't find information. Errors: {errors}", errors |-> errors]
NoCountriesText == [kind |-> "I couldn't identify any countries to look up."]
NoAnswerText == [kind |-> "No answer generated."]

\* a dict that keeps insertion order: a sequence of <<key, value>> pairs
DictKeys(d) == { d[i][1] : i \in 1..Len(d) }
DictSetKeepFirst(d, k, v) ==
    IF k \in DictKeys(d) THEN d ELSE Append(d, <<k, v>>)

DictSetSuccessOnly(d, k, v) ==
    IF v.status # "success" THEN d
    ELSE IF k \in DictKeys(d)
    THEN [i \in 1..Len(d) |-> IF d[i][1] = k THEN <<k, v>> ELSE d[i]]
    ELSE Append(d, <<k, v>>)

DictSet(d, k, v) ==
    IF k \in DictKeys(d)
    THEN [i \in 1..Len(d) |-> IF d[i][1] = k THEN <<k, v>> ELSE d[i]]
    ELSE Append(d, <<k, v>>)

\* how the graph folds a node's update into the state: the messages channel
\* appends (add_messages), every other key is overwritten
Merge(state, update) ==
    [k \in DOMAIN state \cup DOMAIN update |->
        IF k \notin DOMAIN update THEN state[k]
        ELSE IF k = "messages" THEN Get(state, "messages", <<>>) \o update[k]
        ELSE update[k]]

(***************************************************************************)
(* The graph, src/app/graph.py.                                            *)
(***************************************************************************)
Nodes == {"identify_intent", "invoke_tool", "synthesize_answer"}
EntryPoint == "identify_intent"

EdgesSwapped ==
    { <<"identify_intent", "synthesize_answer">>,
      <<"synthesize_answer", "invoke_tool">>,
      <<"invoke_tool", "END">> }

Edges ==
    { <<"identify_intent", "invoke_tool">>,
      <<"invoke_tool", "synthesize_answer">>,
      <<"synthesize_answer", "END">> }

\* where the run goes when node n has returned
Successor(n) == CHOOSE m \in Nodes \cup {"END"} : <<n, m>> \in Edges

(***************************************************************************)
(* get_llm, src/country_info_agent/utils/common.py: the exception it       *)
(* raises, "none" when it returns the model.                               *)
(***************************************************************************)
get_llm_unchecked(key) == "none"

get_llm(key) == IF ~key THEN "ValueError" ELSE "none"

\* a language-model call of a node, with what it was given
LlmCall(call, state, data, ok) ==
    [call |-> call,
     messages |-> Get(state, "messages", <<>>),
     question |-> state.question,
     data |-> data,
     ok |-> ok]

(***************************************************************************)
(* identify_intent, src/country_info_agent/utils/nodes.py: the try block   *)
(* with the outcome of its one chain.ainvoke.                              *)
(***************************************************************************)
identify_intent_retries(state, result) ==
    IF result.ok
    THEN [calls |-> << LlmCall("classify", state, <<>>, TRUE) >>,
          update |-> [intent |-> result.intent, countries |-> result.countries]]
    ELSE [calls |-> << LlmCall("classify", state, <<>>, FALSE),
                       LlmCall("classify", state, <<>>, FALSE) >>,
          update |-> [intent |-> "unknown", countries |-> <<>>, error |-> result.exc]]

identify_intent(state, result) ==
    IF result.ok
    THEN [calls |-> << LlmCall("classify", state, <<>>, TRUE) >>,
          update |-> [intent |-> result.intent, countries |-> result.countries]]
    ELSE [calls |-> << LlmCall("classify", state, <<>>, FALSE) >>,
          update |-> [intent |-> "unknown", countries |-> <<>>, error |-> result.exc]]

(***************************************************************************)
(* invoke_tool, src/country_info_agent/utils/nodes.py.                     *)
(***************************************************************************)
\* "if intent == 'unknown' or not countries"
SkipsResolutionNoCountriesOnly(intent, countries) == Len(countries) = 0

SkipsResolution(intent, countries) == intent = "unknown" \/ Len(countries) = 0

\* the loop over the countries from position i on: picks[i] is what the data
\* source answers during the i-th call.  Gives the outputs dict and the
\* events of the loop: each resolver call and the requests it sent
\* "if not country: continue"
IsBlankNever(country) == FALSE

IsBlank(country) == country = EmptyStr

\* the loop also gives the resolver calls it awaited, in order: the name
\* passed and the result returned
RECURSIVE ToolLoopStopsOnError(_, _, _, _, _, _)
ToolLoopStopsOnError(countries, picks, i, outputs, events, results) ==
    IF i > Len(countries)
    THEN [outputs |-> outputs, events |-> events, results |-> results]
    ELSE IF IsBlank(countries[i])
    THEN ToolLoopStopsOnError(countries, picks, i + 1, outputs, events, results)
    ELSE LET r == fetch_country_info(countries[i], picks[i].exact, picks[i].partial)
         IN  ToolLoopStopsOnError(countries, picks,
                      IF r.result.status = "success" THEN i + 1 ELSE Len(countries) + 1,
                      DictSet(outputs, countries[i], r.result),
                      events \o <<"fetch_country_info">> \o r.requests,
                      Append(results, [name |-> countries[i], result |-> r.result]))

RECURSIVE ToolLoop(_, _, _, _, _, _)
ToolLoop(countries, picks, i, outputs, events, results) ==
    IF i > Len(countries)
    THEN [outputs |-> outputs, events |-> events, results |-> results]
    ELSE IF IsBlank(countries[i])
    THEN ToolLoop(countries, picks, i + 1, outputs, events, results)
    ELSE LET r == fetch_country_info(countries[i], picks[i].exact, picks[i].partial)
         IN  ToolLoop(countries, picks, i + 1,
                      DictSet(outputs, countries[i], r.result),
                      events \o <<"fetch_country_info">> \o r.requests,
                      Append(results, [name |-> countries[i], result |-> r.result]))

invoke_tool(state, picks) ==
    LET countries == Get(state, "countries", <<>>)
        intent == Get(state, "intent", "None")
    IN  IF SkipsResolution(intent, countries)
        THEN [update |-> [tool_outputs |-> <<>>], events |-> <<>>, results |-> <<>>]
        ELSE LET loop == ToolLoop(countries, picks, 1, <<>>, <<>>, <<>>)
             IN  [update |-> [tool_outputs |-> loop.outputs],
                  events |-> loop.events,
                  results |-> loop.results]

(***************************************************************************)
(* synthesize_answer, src/country_info_agent/utils/nodes.py.               *)
(***************************************************************************)
\* the partition of the tool outputs
ValidDataAll(tool_outputs) ==
    [i \in 1..Len(tool_outputs) |->
        <<tool_outputs[i][1], Get(tool_outputs[i][2], "data", NotObj)>>]

ValidData(tool_outputs) ==
    LET ok == SelectSeq(tool_outputs, LAMBDA p : Get(p[2], "status", "None") = "success")
    IN  [i \in 1..Len(ok) |-> <<ok[i][1], ok[i][2].data>>]

ErrorListFirstOnly(tool_outputs) ==
    LET bad == SelectSeq(tool_outputs, LAMBDA p : Get(p[2], "status", "None") # "success")
    IN  [i \in 1..(IF Len(bad) > 0 THEN 1 ELSE 0) |->
            <<bad[i][1], Get(bad[i][2], "message", NoDataMsg)>>]

ErrorList(tool_outputs) ==
    LET bad == SelectSeq(tool_outputs, LAMBDA p : Get(p[2], "status", "None") # "success")
    IN  [i \in 1..Len(bad) |-> <<bad[i][1], Get(bad[i][2], "message", NoDataMsg)>>]

\* the order of the node's tests: intent == "unknown" first, then the two
\* tests on the partition, then the grounded answer
BranchDataFirst(intent, valid_data, errors) ==
    IF Len(valid_data) = 0 /\ Len(errors) > 0 THEN "errors"
    ELSE IF Len(valid_data) = 0 /\ Len(errors) = 0 THEN "no_countries"
    ELSE IF intent = "unknown" THEN "greeting"
    ELSE "grounded"

Branch(intent, valid_data, errors) ==
    IF intent = "unknown" THEN "greeting"
    ELSE IF Len(valid_data) = 0 /\ Len(errors) > 0 THEN "errors"
    ELSE IF Len(valid_data) = 0 /\ Len(errors) = 0 THEN "no_countries"
    ELSE "grounded"

\* the node with the outcome of its model call (llmOk): the update it
\* returns, or the exception it raises, and the model calls it made
synthesize_answer(state, llmOk) ==
    LET tool_outputs == Get(state, "tool_outputs", <<>>)
        intent == Get(state, "intent", "None")
        valid_data == ValidData(tool_outputs)
        errors == ErrorList(tool_outputs)
        branch == Branch(intent, valid_data, errors)
    IN  IF branch = "greeting"
        THEN [calls |-> << LlmCall("greeting", state, <<>>, llmOk) >>,
              raises |-> "none",
              update |->
                IF llmOk
                THEN [final_answer |-> GeneratedText("greeting", <<>>),
                      messages |-> << AIMessage(GeneratedText("greeting", <<>>)) >>]
                ELSE [final_answer |-> GreetingFallbackText]]
        ELSE IF branch = "errors"
        THEN [calls |-> <<>>, raises |-> "none",
              update |-> [final_answer |-> ErrorsText(errors)]]
        ELSE IF branch = "no_countries"
        THEN [calls |-> <<>>, raises |-> "none",
              update |-> [final_answer |-> NoCountriesText]]
        ELSE [calls |-> << LlmCall("synthesize", state, valid_data, llmOk) >>,
              raises |-> IF llmOk THEN "none" ELSE "APIError",
              update |->
                IF llmOk
                THEN [final_answer |-> GeneratedText("synthesize", valid_data),
                      messages |-> << AIMessage(GeneratedText("synthesize", valid_data)) >>]
                ELSE <<>>]

(***************************************************************************)
(* State.                                                                  *)
(***************************************************************************)
VARIABLES
    \* the resolver on its own: the name asked for, what the data source
    \* answers to the exact and to the partial query, the result of the
    \* call, and the requests it sent
    query, source, fetched, sent,
    \* OPENAI_API_KEY is set
    apiKey,
    \* per session: where its request stands ("idle", a node, "END",
    \* "aborted"), the graph state of the run, the exception that ended the
    \* run, the events of the run (nodes entered, resolver calls, requests
    \* to the data source), its language-model calls, the response
    \* returned to the caller, and the resolver calls of the run with the
    \* result each returned
    node, state, raised, log, llmCalls, response, resolved,
    \* the resolver called again and again: the calls made so far and the
    \* clears of the cache, in order, and the cache of the memoized resolver
    callLog, cache

resolverVars == <<query, source, fetched, sent, callLog, cache>>
pipelineVars == <<apiKey, node, state, raised, log, llmCalls, response, resolved>>
vars == <<query, source, fetched, sent, callLog, cache,
          apiKey, node, state, raised, log, llmCalls, response, resolved>>

NoResponse == [status |-> 0]

PipelineIdle ==
    /\ node = [s \in Sessions |-> "idle"]
    /\ state = [s \in Sessions |-> <<>>]
    /\ raised = [s \in Sessions |-> "none"]
    /\ log = [s \in Sessions |-> <<>>]
    /\ llmCalls = [s \in Sessions |-> <<>>]
    /\ response = [s \in Sessions |-> NoResponse]
    /\ resolved = [s \in Sessions |-> <<>>]

InitResolver ==
    /\ query \in QueryNames
    /\ source \in [exact : Outcomes(MaxExact), partial : Outcomes(MaxCandidates)]
    /\ fetched = NoResult
    /\ sent = <<>>
    /\ callLog = <<>>
    /\ cache = <<>>
    /\ apiKey = TRUE
    /\ PipelineIdle

\* one call of fetch_country_info(query)
Fetch ==
    /\ fetched = NoResult
    /\ LET r == fetch_country_info(query, source.exact, source.partial)
       IN  /\ fetched' = r.result
           /\ sent' = r.requests
    /\ UNCHANGED <<query, source, callLog, cache>>
    /\ UNCHANGED pipelineVars

NextResolver == Fetch

SpecResolver == InitResolver /\ [][NextResolver]_vars

(***************************************************************************)
(* The resolver called several times against one data source,              *)
(* src/app/tools.py.                                                       *)
(***************************************************************************)
InitCalls ==
    /\ query = <<"A", "b">>
    /\ source \in [exact : Outcomes(MaxListed), partial : Outcomes(MaxListed)]
    /\ fetched = NoResult
    /\ sent = <<>>
    /\ callLog = <<>>
    /\ cache = <<>>
    /\ apiKey = TRUE
    /\ PipelineIdle

CallEvent(name, result, requests, hit) ==
    [event |-> "call", name |-> name, result |-> result, requests |-> requests, hit |-> hit]

\* a call against the data source as it is: the function opens its own
\* client and keeps nothing from one call to the next
ResolveSharedClient(country_name) ==
    IF callLog = <<>>
    THEN fetch_country_info(country_name, source.exact, source.partial)
    ELSE [result |-> Failure(UnexpectedErrorMsg("RuntimeError")), requests |-> <<>>]

Resolve(country_name) ==
    fetch_country_info(country_name, source.exact, source.partial)

Call(country_name) ==
    /\ Len(callLog) < MaxCalls
    /\ LET r == Resolve(country_name)
       IN  callLog' = Append(callLog, CallEvent(country_name, r.result, r.requests, FALSE))
    /\ UNCHANGED <<query, source, fetched, sent, cache>>
    /\ UNCHANGED pipelineVars

NextCalls == \E country_name \in QueryNames : Call(country_name)

SpecCalls == InitCalls /\ [][NextCalls]_vars

(***************************************************************************)
(* The memoized resolver the nodes and the tests import                    *)
(* (country_info_agent.utils.tools): results are kept by country name      *)
(* until cache_clear().                                                    *)
(***************************************************************************)
CacheHitNever(c, country_name) == FALSE

CacheHit(c, country_name) == country_name \in DictKeys(c)

CacheLookup(c, country_name) ==
    c[CHOOSE i \in 1..Len(c) : c[i][1] = country_name][2]

\* the result returned, the requests sent and the cache afterwards
cached_fetch_country_info(c, country_name, exact, partial) ==
    IF CacheHit(c, country_name)
    THEN [result |-> CacheLookup(c, country_name), requests |-> <<>>,
          hit |-> TRUE, cache |-> c]
    ELSE LET r == fetch_country_info(country_name, exact, partial)
         IN  [result |-> r.result, requests |-> r.requests,
              hit |-> FALSE, cache |-> DictSet(c, country_name, r.result)]

CachedCall(country_name) ==
    /\ Len(callLog) < MaxCalls
    /\ LET r == cached_fetch_country_info(cache, country_name, source.exact, source.partial)
       IN  /\ callLog' = Append(callLog, CallEvent(country_name, r.result, r.requests, r.hit))
           /\ cache' = r.cache
    /\ UNCHANGED <<query, source, fetched, sent>>
    /\ UNCHANGED pipelineVars

\* fetch_country_info.cache_clear()
CacheClear ==
    /\ Len(callLog) < MaxCalls
    /\ callLog' = Append(callLog, [event |-> "cache_clear", name |-> EmptyStr,
                               result |-> NoResult, requests |-> <<>>, hit |-> FALSE])
    /\ cache' = <<>>
    /\ UNCHANGED <<query, source, fetched, sent>>
    /\ UNCHANGED pipelineVars

NextCached ==
    \/ \E country_name \in QueryNames : CachedCall(country_name)
    \/ CacheClear

SpecCached == InitCalls /\ [][NextCached]_vars

(***************************************************************************)
(* The /query handler and the run of the graph,                            *)
(* src/country_info_agent/api.py and src/app/graph.py.                     *)
(***************************************************************************)
Init ==
    /\ query = <<"A", "b">>
    /\ source = [exact |-> Response(404, BodyObject), partial |-> Response(404, BodyObject)]
    /\ fetched = NoResult
    /\ sent = <<>>
    /\ callLog = <<>>
    /\ cache = <<>>
    /\ apiKey \in BOOLEAN
    /\ PipelineIdle

\* query_agent up to the call of the graph: the initial state, and the run
\* enters the graph at its entry point
Query(s, q) ==
    /\ node[s] = "idle"
    /\ state' = [state EXCEPT ![s] =
          Merge(<<>>, [question |-> q, messages |-> << HumanMessage(QuestionText(q)) >>])]
    /\ node' = [node EXCEPT ![s] = EntryPoint]
    /\ raised' = [raised EXCEPT ![s] = "none"]
    /\ log' = [log EXCEPT ![s] = <<>>]
    /\ llmCalls' = [llmCalls EXCEPT ![s] = <<>>]
    /\ response' = [response EXCEPT ![s] = NoResponse]
    /\ resolved' = [resolved EXCEPT ![s] = <<>>]
    /\ UNCHANGED <<apiKey>>
    /\ UNCHANGED resolverVars

\* a node returned an update: fold it into the state and follow the edge
ReturnedShared(s, n, update, events, calls) ==
    /\ state' = [t \in Sessions |-> Merge(state[t], update)]
    /\ node' = [node EXCEPT ![s] = Successor(n)]
    /\ log' = [log EXCEPT ![s] = log[s] \o <<n>> \o events]
    /\ llmCalls' = [llmCalls EXCEPT ![s] = llmCalls[s] \o calls]
    /\ UNCHANGED <<apiKey, raised, response>>
    /\ UNCHANGED resolverVars

Returned(s, n, update, events, calls) ==
    /\ state' = [state EXCEPT ![s] = Merge(state[s], update)]
    /\ node' = [node EXCEPT ![s] = Successor(n)]
    /\ log' = [log EXCEPT ![s] = log[s] \o <<n>> \o events]
    /\ llmCalls' = [llmCalls EXCEPT ![s] = llmCalls[s] \o calls]
    /\ UNCHANGED <<apiKey, raised, response>>
    /\ UNCHANGED resolverVars

\* a node raised: the run of the graph ends with the exception
Aborted(s, n, e, calls) ==
    /\ node' = [node EXCEPT ![s] = "aborted"]
    /\ raised' = [raised EXCEPT ![s] = e]
    /\ log' = [log EXCEPT ![s] = Append(log[s], n)]
    /\ llmCalls' = [llmCalls EXCEPT ![s] = llmCalls[s] \o calls]
    /\ UNCHANGED <<apiKey, state, response>>
    /\ UNCHANGED resolverVars

\* identify_intent: get_llm() raises ValueError without the key; the
\* classification call answers with an IntentSchema or fails
IdentifyIntent(s) ==
    /\ node[s] = "identify_intent"
    /\ IF get_llm(apiKey) # "none"
       THEN Aborted(s, "identify_intent", get_llm(apiKey), <<>>)
       ELSE \E result \in ClassifyOutcomes :
              LET r == identify_intent(state[s], result)
              IN  Returned(s, "identify_intent", r.update, <<>>, r.calls)
    /\ UNCHANGED resolved

InvokeTool(s) ==
    /\ node[s] = "invoke_tool"
    /\ \E picks \in [1..Len(Get(state[s], "countries", <<>>)) -> PipelineSources] :
          LET r == invoke_tool(state[s], picks)
          IN  /\ Returned(s, "invoke_tool", r.update, r.events, <<>>)
              /\ resolved' = [resolved EXCEPT ![s] = r.results]

SynthesizeAnswer(s) ==
    /\ node[s] = "synthesize_answer"
    /\ IF get_llm(apiKey) # "none"
       THEN Aborted(s, "synthesize_answer", get_llm(apiKey), <<>>)
       ELSE \E llmOk \in BOOLEAN :
              LET r == synthesize_answer(state[s], llmOk)
              IN  IF r.raises = "none"
                  THEN Returned(s, "synthesize_answer", r.update, <<>>, r.calls)
                  ELSE Aborted(s, "synthesize_answer", r.raises, r.calls)
    /\ UNCHANGED resolved

\* query_agent after the graph: the QueryResponse, or the HTTPException its
\* two except clauses raise
QueryReturn(s) ==
    /\ node[s] \in {"END", "aborted"}
    /\ response' = [response EXCEPT ![s] =
          IF node[s] = "END"
          THEN [status |-> 200,
                answer |-> Get(state[s], "final_answer", NoAnswerText),
                intent |-> Get(state[s], "intent", "None"),
                countries |-> Get(state[s], "countries", <<>>)]
          ELSE IF raised[s] = "ValueError"
          THEN [status |-> 500, detail |-> "{e}", exc |-> raised[s]]
          ELSE [status |-> 500, detail |-> "Internal Server Error: {e}", exc |-> raised[s]]]
    /\ node' = [node EXCEPT ![s] = "idle"]
    /\ UNCHANGED <<apiKey, state, raised, log, llmCalls, resolved>>
    /\ UNCHANGED resolverVars

Next ==
    \E s \in Sessions :
        \/ \E q \in Questions : Query(s, q)
        \/ IdentifyIntent(s)
        \/ InvokeTool(s)
        \/ SynthesizeAnswer(s)
        \/ QueryReturn(s)

Spec == Init /\ [][Next]_vars

(***************************************************************************)
(* Vocabulary of the resolver's properties.  Equality up to case is stated *)
(* here on its own, letter by letter, not through Lower.                   *)
(***************************************************************************)
SameLetter(c, d) ==
    c = d \/ {c, d} \in { {"a", "A"}, {"b", "B"}, {"c", "C"} }

EqualsIgnoringCase(s, t) ==
    Len(s) = Len(t) /\ \A i \in 1..Len(s) : SameLetter(s[i], t[i])

\* the item is a country record whose common or official name is n up to case
HasName(item, n) ==
    /\ item.type = "dict"
    /\ "name" \in DOMAIN item.value
    /\ \E k \in {"common", "official"} \cap DOMAIN item.value.name :
          EqualsIgnoringCase(item.value.name[k], n)

\* the item is a country record that lists n, up to case, among its
\* alternate spellings
HasAltSpelling(item, n) ==
    /\ item.type = "dict"
    /\ "altSpellings" \in DOMAIN item.value
    /\ \E i \in 1..Len(item.value.altSpellings) :
          EqualsIgnoringCase(item.value.altSpellings[i], n)

\* the exact query answered 200 with a non-empty list
ExactAnswered ==
    /\ source.exact.kind = "response"
    /\ source.exact.status = 200
    /\ source.exact.body.kind = "list"
    /\ Len(source.exact.body.items) > 0

Candidates == source.partial.body.items

\* the call is over, it sent the partial query, and the data source answered
\* it with 200 and a non-empty list of country records
PartialAnswered ==
    /\ fetched # NoResult
    /\ sent = <<"exact", "partial">>
    /\ source.partial.kind = "response"
    /\ source.partial.status = 200
    /\ source.partial.body.kind = "list"
    /\ Len(Candidates) > 0
    /\ \A i \in 1..Len(Candidates) : Candidates[i].type = "dict"

NameHits == { i \in 1..Len(Candidates) : HasName(Candidates[i], query) }
AltHits == { i \in 1..Len(Candidates) : HasAltSpelling(Candidates[i], query) }

\* C1: when the partial query answers with candidate records of which one
\* has a common or official name equal to the name up to case, the call
\* returns success carrying that record (the first such record of the list),
\* wherever it stands in the list.
C1_ExactNamePreferred ==
    (PartialAnswered /\ NameHits # {}) =>
        /\ fetched.status = "success"
        /\ HasName(fetched.data, query)
        /\ fetched = Success(Candidates[Min(NameHits)])

\* several candidates, a near-duplicate first, the record with the name last
C1_Witness ==
    /\ PartialAnswered
    /\ Len(Candidates) = 3
    /\ NameHits = {3}
    /\ Candidates[1] = RecAlt
    /\ Candidates[3].value.name.common # query
    /\ fetched = Success(Candidates[3])

\* C2: when the exact query answers 200 with a non-empty list, the call
\* returns success carrying the first record of that list and the partial
\* query is never sent.
C2_ExactFirstRecord ==
    (fetched # NoResult /\ ExactAnswered) =>
        /\ fetched = Success(source.exact.body.items[1])
        /\ sent = <<"exact">>

C2_Witness ==
    /\ fetched # NoResult
    /\ ExactAnswered
    /\ Len(source.exact.body.items) = 2
    /\ source.exact.body.items[1] # source.exact.body.items[2]
    /\ fetched = Success(source.exact.body.items[1])
    /\ sent = <<"exact">>
    /\ source.partial.kind = "response"

\* C3: when no candidate record has the name as common or official name and
\* some candidate lists it among its alternate spellings, the call returns
\* the first such candidate; a common/official-name match anywhere in the
\* list wins over an alternate-spelling match that stands earlier.
C3_AltSpellingSecond ==
    /\ (PartialAnswered /\ NameHits = {} /\ AltHits # {}) =>
          fetched = Success(Candidates[Min(AltHits)])
    /\ (PartialAnswered /\ NameHits # {} /\ AltHits # {} /\ Min(AltHits) < Min(NameHits)) =>
          fetched = Success(Candidates[Min(NameHits)])

C3_Witness ==
    /\ PartialAnswered
    /\ NameHits = {}
    /\ AltHits = {2}
    /\ fetched = Success(Candidates[2])

\* C4: when the partial query answers with a non-empty list of candidate
\* records of which none matches the name by common name, official name or
\* alternate spelling, the call returns success carrying the first
\* candidate; while candidate records exist the call never returns a failure.
C4_DefaultFirstCandidate ==
    /\ (PartialAnswered /\ NameHits = {} /\ AltHits = {}) =>
          fetched = Success(Candidates[1])
    /\ PartialAnswered => fetched.status = "success"

C4_Witness ==
    /\ PartialAnswered
    /\ NameHits = {}
    /\ AltHits = {}
    /\ Len(Candidates) >= 2
    /\ Candidates[1] # Candidates[Len(Candidates)]
    /\ fetched = Success(Candidates[1])

\* the partial query was sent and found no record: it answered 200 with an
\* empty list, or 404
NoRecordFound ==
    /\ fetched # NoResult
    /\ sent = <<"exact", "partial">>
    /\ source.partial.kind = "response"
    /\ \/ source.partial.status = 404
       \/ /\ source.partial.status = 200
          /\ source.partial.body.kind = "list"
          /\ Len(source.partial.body.items) = 0

\* C5: for a name with zero matching records (the partial query returns zero
\* records, or the data source reports 404) the call returns a failure whose
\* message is "Country '<name>' not found.".
C5_NotFoundMessage ==
    NoRecordFound => fetched = Failure(NotFoundMsg(query))

\* the requests a finished call got a transport-level failure on, and the
\* other failures it met
TransportFailures ==
    { source[k].exc : k \in { k \in {"exact", "partial"} :
        /\ (k = "exact" \/ sent = <<"exact", "partial">>)
        /\ source[k].kind = "raise"
        /\ source[k].exc \in RequestErrors } }

OtherFailures ==
    { source[k].exc : k \in { k \in {"exact", "partial"} :
        /\ (k = "exact" \/ sent = <<"exact", "partial">>)
        /\ source[k].kind = "raise"
        /\ source[k].exc \notin RequestErrors } }
    \cup { "JSONDecodeError" : k \in { k \in {"exact", "partial"} :
        /\ (k = "exact" \/ sent = <<"exact", "partial">>)
        /\ source[k].kind = "response"
        /\ source[k].status = 200
        /\ source[k].body.kind = "invalid" } }

\* C6: fetch_country_info never raises: a transport-level failure on the
\* exact or on the partial request gives a failure with the network-error
\* message, any other failure a failure with the generic message, and every
\* call ends with a tagged result.
C6_NeverRaises ==
    fetched # NoResult =>
        /\ fetched.status \in {"success", "error"}
        /\ \A e \in TransportFailures : fetched = Failure(NetworkErrorMsg(e))
        /\ \A e \in OtherFailures : fetched = Failure(UnexpectedErrorMsg(e))

\* the exact query found nothing and the partial request timed out
C6_Witness ==
    /\ sent = <<"exact", "partial">>
    /\ source.exact.kind = "response"
    /\ source.partial.kind = "raise"
    /\ source.partial.exc = "ConnectTimeout"
    /\ fetched = Failure(NetworkErrorMsg("ConnectTimeout"))

(***************************************************************************)
(* Vocabulary of the pipeline's properties.                                *)
(***************************************************************************)
PipelineOrder == <<"identify_intent", "invoke_tool", "synthesize_answer">>
ResolverEvents == {"fetch_country_info", "exact", "partial"}

\* the nodes the run of session s entered, in order
NodesEntered(s) == SelectSeq(log[s], LAMBDA e : e \in Nodes)

IsPrefix(a, b) == Len(a) <= Len(b) /\ \A i \in 1..Len(a) : a[i] = b[i]

\* a language-model call made by synthesize_answer in the run of s failed
SynthesisCallFailed(s) ==
    \E i \in 1..Len(llmCalls[s]) :
        /\ llmCalls[s][i].call \in {"greeting", "synthesize"}
        /\ ~llmCalls[s][i].ok

\* C7: whenever a language-model call made by synthesize_answer fails, in
\* the greeting branch or in the grounded-answer branch, the node returns a
\* fallback final answer and the request completes with an answer: the
\* failure never reaches the caller as an HTTP 500.
C7_SynthesisFailureRecovered ==
    \A s \in Sessions :
        SynthesisCallFailed(s) =>
            /\ node[s] # "aborted"
            /\ "final_answer" \in DOMAIN state[s]
            /\ response[s].status # 500

\* C8: with the credential present, whatever the model and the data source
\* answer, a run started at identify_intent never ends anywhere but at END,
\* after synthesize_answer, with a final answer set.
C8_RunReachesEnd ==
    \A s \in Sessions :
        (apiKey /\ node[s] \notin Nodes /\ log[s] # <<>>) =>
            /\ node[s] # "aborted"
            /\ raised[s] = "none"
            /\ NodesEntered(s) = PipelineOrder
            /\ "final_answer" \in DOMAIN state[s]

\* C9: the three stages run strictly in sequence and each at most once per
\* question: the nodes a run entered are a prefix of identify_intent,
\* invoke_tool, synthesize_answer; every resolver call and every request to
\* the data source comes after identify_intent and before
\* synthesize_answer.
C9_StagesInSequence ==
    \A s \in Sessions :
        /\ IsPrefix(NodesEntered(s), PipelineOrder)
        /\ node[s] \in Nodes => NodesEntered(s) \o <<node[s]>> = SubSeq(PipelineOrder, 1, Len(NodesEntered(s)) + 1)
        /\ \A i \in 1..Len(log[s]) :
              log[s][i] \in ResolverEvents =>
                  /\ \E j \in 1..(i - 1) : log[s][j] = "identify_intent"
                  /\ \A j \in 1..(i - 1) : log[s][j] # "synthesize_answer"

\* a run that called the resolver twice and went through all three stages
C9_Witness ==
    \E s \in Sessions :
        /\ NodesEntered(s) = PipelineOrder
        /\ Len(SelectSeq(log[s], LAMBDA e : e = "fetch_country_info")) = 2
        /\ node[s] = "END"

\* invoke_tool has run in the current request of s
ToolInvoked(s) == \E i \in 1..Len(log[s]) : log[s][i] = "invoke_tool"

\* C10: when the intent is "unknown" or the country list is empty,
\* invoke_tool makes no resolver call and sets the fetch-result mapping to
\* empty: no request reaches the data source, even when the country list of
\* an unknown intent is not empty.
C10_NoResolutionWhenUnknownOrEmpty ==
    \A s \in Sessions :
        ( /\ ToolInvoked(s)
          /\ \/ Get(state[s], "intent", "None") = "unknown"
             \/ Get(state[s], "countries", <<>>) = <<>> ) =>
            /\ "tool_outputs" \in DOMAIN state[s]
            /\ state[s].tool_outputs = <<>>
            /\ \A i \in 1..Len(log[s]) : log[s][i] \notin ResolverEvents

\* "Hello" classified as unknown, with a country list that is not empty
C10_Witness ==
    \E s \in Sessions :
        /\ ToolInvoked(s)
        /\ state[s].question = "Hello"
        /\ state[s].intent = "unknown"
        /\ Len(state[s].countries) = 2
        /\ state[s].tool_outputs = <<>>
        /\ log[s] = <<"identify_intent", "invoke_tool">>

(***************************************************************************)
(* Vocabulary of the properties of invoke_tool and synthesize_answer.      *)
(***************************************************************************)
\* the value the insertion-ordered dict d holds under key k
DictGet(d, k) == d[CHOOSE i \in 1..Len(d) : d[i][1] = k][2]

\* the names of the list that are not empty
NonEmptyNames(countries) == { countries[i] : i \in 1..Len(countries) } \ {EmptyStr}

\* the positions of the run's resolver calls that passed name n
CallsFor(s, n) == { i \in 1..Len(resolved[s]) : resolved[s][i].name = n }

Max(S) == CHOOSE x \in S : \A y \in S : y <= x

\* invoke_tool has run in the request of s and went into its loop
Resolving(s) ==
    /\ ToolInvoked(s)
    /\ Get(state[s], "intent", "None") # "unknown"
    /\ Get(state[s], "countries", <<>>) # <<>>

\* synthesize_answer has run in the request of s and returned
SynthesisReturned(s) ==
    /\ \E i \in 1..Len(log[s]) : log[s][i] = "synthesize_answer"
    /\ raised[s] = "none"

\* the language-model calls of the run of s of the given kind
CallsOfKind(s, kind) == SelectSeq(llmCalls[s], LAMBDA c : c.call = kind)

\* C11: when the intent is not "unknown" and the country list is not empty,
\* the mapping invoke_tool returns has as keys exactly the non-empty names
\* of the list, one entry per name, and each key maps to the result the
\* resolver returned for that name (to the last one when the name is listed
\* twice); the mapping is complete from the moment invoke_tool has returned,
\* before synthesize_answer starts.
C11_MappingMatchesResolver ==
    \A s \in Sessions :
        Resolving(s) =>
            /\ "tool_outputs" \in DOMAIN state[s]
            /\ LET out == state[s].tool_outputs
               IN  /\ DictKeys(out) = NonEmptyNames(state[s].countries)
                   /\ Len(out) = Cardinality(DictKeys(out))
                   /\ \A n \in DictKeys(out) :
                         /\ CallsFor(s, n) # {}
                         /\ DictGet(out, n) = resolved[s][Max(CallsFor(s, n))].result

\* the same name listed twice, found by the first call and not by the
\* second: synthesis is about to start with the one entry of the second call
C11_Witness ==
    \E s \in Sessions :
        /\ Resolving(s)
        /\ node[s] = "synthesize_answer"
        /\ Len(resolved[s]) = 2
        /\ resolved[s][1].name = resolved[s][2].name
        /\ resolved[s][1].result.status = "success"
        /\ resolved[s][2].result.status = "error"
        /\ Len(state[s].tool_outputs) = 1
        /\ state[s].tool_outputs[1][2].status = "error"

\* C12: a failure of one country's lookup never aborts the lookups of the
\* others: the resolver is called once for every non-empty name of the
\* list, every name called gets an entry, and a failed call is carried as a
\* labelled failure entry (status "error" with its message).
C12_FailureKeepsSiblings ==
    \A s \in Sessions :
        Resolving(s) =>
            LET out == state[s].tool_outputs
                countries == state[s].countries
            IN  /\ Len(resolved[s]) =
                       Cardinality({ i \in 1..Len(countries) : countries[i] # EmptyStr })
                /\ \A i \in 1..Len(resolved[s]) :
                      /\ resolved[s][i].name \in DictKeys(out)
                      /\ (resolved[s][i].result.status = "error"
                            /\ i = Max(CallsFor(s, resolved[s][i].name))) =>
                             /\ DictGet(out, resolved[s][i].name).status = "error"
                             /\ DictGet(out, resolved[s][i].name) =
                                    Failure(resolved[s][i].result.message)
                /\ \A k \in 1..Len(out) : out[k][2].status \in {"success", "error"}

\* the first lookup failed on the network, the second one still ran and
\* succeeded, and both have their entry
C12_Witness ==
    \E s \in Sessions :
        /\ Resolving(s)
        /\ Len(state[s].tool_outputs) = 2
        /\ state[s].tool_outputs[1][2] = Failure(NetworkErrorMsg("ConnectTimeout"))
        /\ state[s].tool_outputs[2][2].status = "success"

\* C13: when the classification call of identify_intent fails (the model
\* call raises or its output does not match the schema), the node returns
\* intent "unknown" with an empty country list and does not raise; the
\* classification is attempted once per run and never retried.
C13_ClassificationFailureIsUnknown ==
    \A s \in Sessions :
        /\ Len(CallsOfKind(s, "classify")) <= 1
        /\ (\E i \in 1..Len(llmCalls[s]) :
                llmCalls[s][i].call = "classify" /\ ~llmCalls[s][i].ok) =>
              /\ "intent" \in DOMAIN state[s]
              /\ state[s].intent = "unknown"
              /\ "countries" \in DOMAIN state[s]
              /\ state[s].countries = <<>>
              /\ raised[s] = "none"
              /\ node[s] # "aborted"
              /\ response[s].status # 500

\* the model's output did not validate: the run goes on to invoke_tool
C13_Witness ==
    \E s \in Sessions :
        /\ node[s] = "invoke_tool"
        /\ llmCalls[s] = << LlmCall("classify", state[s], <<>>, FALSE) >>
        /\ state[s].intent = "unknown"
        /\ state[s].countries = <<>>
        /\ state[s].error = "ValidationError"

\* every resolver call of the run of s failed, and there was one
DataNotFound(s) ==
    /\ resolved[s] # <<>>
    /\ \A i \in 1..Len(resolved[s]) : resolved[s][i].result.status = "error"

\* C14: without the model credential a request fails at once with the
\* configuration error (ValueError), before any language-model call and
\* before any resolver call, and the caller gets it as an error (status 500
\* with the error's text), distinct from a data-not-found outcome, which is
\* returned as a normal answer (status 200).
C14_MissingCredentialFatal ==
    \A s \in Sessions :
        /\ ~apiKey =>
              /\ llmCalls[s] = <<>>
              /\ resolved[s] = <<>>
              /\ \A i \in 1..Len(log[s]) : log[s][i] \notin ResolverEvents
              /\ log[s] \in { <<>>, <<"identify_intent">> }
              /\ log[s] # <<>> =>
                    /\ raised[s] = "ValueError"
                    /\ "final_answer" \notin DOMAIN state[s]
              /\ response[s] # NoResponse =>
                    response[s] = [status |-> 500, detail |-> "{e}", exc |-> "ValueError"]
        /\ (DataNotFound(s) /\ response[s] # NoResponse) =>
              /\ response[s].status = 200
              /\ response[s].answer = ErrorsText(ErrorList(state[s].tool_outputs))

\* the caller of a request without the credential has got its error
C14_Witness ==
    \E s \in Sessions :
        /\ ~apiKey
        /\ log[s] = <<"identify_intent">>
        /\ response[s].status = 500
        /\ response[s].exc = "ValueError"

\* C15: when the intent is not "unknown" and the mapping holds at least one
\* entry and only failures, the final answer is the "Errors:" text with the
\* failure message of every country of the mapping, and synthesize_answer
\* makes no language-model call.
C15_AllFailuresAggregated ==
    \A s \in Sessions :
        ( /\ SynthesisReturned(s)
          /\ state[s].intent # "unknown"
          /\ state[s].tool_outputs # <<>>
          /\ \A k \in 1..Len(state[s].tool_outputs) :
                state[s].tool_outputs[k][2].status # "success" ) =>
            /\ "final_answer" \in DOMAIN state[s]
            /\ state[s].final_answer.kind = "I couldn't find information. Errors: {errors}"
            /\ "errors" \in DOMAIN state[s].final_answer
            /\ \A k \in 1..Len(state[s].tool_outputs) :
                  \E j \in 1..Len(state[s].final_answer.errors) :
                      state[s].final_answer.errors[j] =
                          << state[s].tool_outputs[k][1],
                             state[s].tool_outputs[k][2].message >>
            /\ CallsOfKind(s, "greeting") = <<>>
            /\ CallsOfKind(s, "synthesize") = <<>>

\* two countries, one not found and one lost on the network
C15_Witness ==
    \E s \in Sessions :
        /\ SynthesisReturned(s)
        /\ node[s] = "END"
        /\ Len(state[s].tool_outputs) = 2
        /\ state[s].tool_outputs[1][2] = Failure(NotFoundMsg(<<"A", "b">>))
        /\ state[s].tool_outputs[2][2] = Failure(NetworkErrorMsg("ConnectTimeout"))
        /\ Len(state[s].final_answer.errors) = 2

\* C16: when the intent is not "unknown" and the country list is empty or
\* holds only empty names, invoke_tool followed by synthesize_answer gives
\* exactly "I couldn't identify any countries to look up.", with no resolver
\* call and no grounded-answer (or any other answer-generation) model call.
C16_NoCountriesMessage ==
    \A s \in Sessions :
        ( /\ SynthesisReturned(s)
          /\ state[s].intent # "unknown"
          /\ \A i \in 1..Len(state[s].countries) : state[s].countries[i] = EmptyStr ) =>
            /\ state[s].tool_outputs = <<>>
            /\ "final_answer" \in DOMAIN state[s]
            /\ state[s].final_answer = NoCountriesText
            /\ resolved[s] = <<>>
            /\ \A i \in 1..Len(log[s]) : log[s][i] \notin ResolverEvents
            /\ CallsOfKind(s, "synthesize") = <<>>
            /\ CallsOfKind(s, "greeting") = <<>>
            /\ response[s] # NoResponse =>
                  (response[s].status = 200 /\ response[s].answer = NoCountriesText)

\* a list holding one empty name, answered
C16_Witness ==
    \E s \in Sessions :
        /\ SynthesisReturned(s)
        /\ state[s].intent = "get_capital"
        /\ state[s].countries = << EmptyStr >>
        /\ response[s].status = 200
        /\ response[s].answer = NoCountriesText

\* the names of the mapping whose entry is a success
Successes(out) == { out[k][1] : k \in { j \in 1..Len(out) : out[j][2].status = "success" } }

\* C17: when at least one fetch result is a success (and the intent is not
\* "unknown"), synthesize_answer makes one answer-generation call whose data
\* context has an entry for exactly the countries whose result is a success,
\* each with that country's record, and nothing from a failed entry; the
\* final answer the node returns is the text the model generated from that
\* context.
C17_GroundedOnSuccessesOnly ==
    \A s \in Sessions :
        /\ \A i \in 1..Len(llmCalls[s]) :
              llmCalls[s][i].call = "synthesize" =>
                  LET data == llmCalls[s][i].data
                      out == state[s].tool_outputs
                  IN  /\ { data[j][1] : j \in 1..Len(data) } = Successes(out)
                      /\ Len(data) = Cardinality(Successes(out))
                      /\ \A j \in 1..Len(data) :
                            /\ DictGet(out, data[j][1]).status = "success"
                            /\ data[j][2] = DictGet(out, data[j][1]).data
        /\ ( /\ \E i \in 1..Len(log[s]) : log[s][i] = "synthesize_answer"
             /\ state[s].intent # "unknown"
             /\ Successes(state[s].tool_outputs) # {} ) =>
              /\ Len(CallsOfKind(s, "synthesize")) = 1
              /\ CallsOfKind(s, "greeting") = <<>>
              /\ "final_answer" \in DOMAIN state[s] =>
                    state[s].final_answer =
                        GeneratedText("synthesize", CallsOfKind(s, "synthesize")[1].data)

\* one country failed and one was found: the answer is generated from the
\* record of the second alone
C17_Witness ==
    \E s \in Sessions :
        /\ node[s] = "END"
        /\ Len(state[s].tool_outputs) = 2
        /\ state[s].tool_outputs[1][2].status = "error"
        /\ state[s].tool_outputs[2][2].status = "success"
        /\ Len(CallsOfKind(s, "synthesize")) = 1
        /\ CallsOfKind(s, "synthesize")[1].data = << << <<"c">>, RecCommon >> >>
        /\ state[s].final_answer = GeneratedText("synthesize", << << <<"c">>, RecCommon >> >>)

\* fetch results synthesize_answer may find in the state
SomeOutputs ==
    { <<>>,
      << << <<"A", "b">>, Success(RecCommon) >> >>,
      << << <<"A", "b">>, Failure(NotFoundMsg(<<"A", "b">>)) >> >> }

\* with intent "unknown", the node takes the greeting branch whatever the
\* fetch results are: its one model call is the greeting call
GreetingFirst(s) ==
    \A out \in SomeOutputs, llmOk \in BOOLEAN :
        LET r == synthesize_answer(Merge(state[s], [tool_outputs |-> out]), llmOk)
        IN  /\ Len(r.calls) = 1
            /\ r.calls[1].call = "greeting"
            /\ r.update.final_answer \in {GeneratedText("greeting", <<>>), GreetingFallbackText}

\* C18 as stated: whenever the intent is "unknown", synthesize_answer takes
\* the greeting branch before looking at the fetch results, and the final
\* answer is the text the language model generated for the greeting prompt.
C18_GreetingIsModelText ==
    \A s \in Sessions :
        (SynthesisReturned(s) /\ state[s].intent = "unknown") =>
            /\ GreetingFirst(s)
            /\ state[s].final_answer = GeneratedText("greeting", <<>>)

\* C18, amended: whenever the intent is "unknown", synthesize_answer takes
\* the greeting branch before looking at the fetch results and makes the
\* greeting call, once; the final answer is the text the model generated for
\* the greeting prompt when that call succeeds, and the hardcoded greeting
\* when it fails.
C18_GreetingOrFallback ==
    \A s \in Sessions :
        (SynthesisReturned(s) /\ state[s].intent = "unknown") =>
            /\ GreetingFirst(s)
            /\ Len(CallsOfKind(s, "greeting")) = 1
            /\ CallsOfKind(s, "synthesize") = <<>>
            /\ state[s].final_answer =
                  IF CallsOfKind(s, "greeting")[1].ok
                  THEN GeneratedText("greeting", <<>>)
                  ELSE GreetingFallbackText

\* an unknown intent that came with two countries, and a greeting call that
\* failed: the caller gets the hardcoded greeting
C18_Witness ==
    \E s \in Sessions :
        /\ SynthesisReturned(s)
        /\ state[s].intent = "unknown"
        /\ Len(state[s].countries) = 2
        /\ ~CallsOfKind(s, "greeting")[1].ok
        /\ response[s].status = 200
        /\ response[s].answer = GreetingFallbackText

\* C19: after synthesize_answer has returned, on whichever branch, the last
\* turn of the history is an assistant turn whose text is the final answer,
\* and every user turn of the history is followed by an assistant turn.
C19_AnswerAppendedToHistory ==
    \A s \in Sessions :
        SynthesisReturned(s) =>
            LET m == state[s].messages
            IN  /\ m[Len(m)] = AIMessage(state[s].final_answer)
                /\ \A i \in 1..Len(m) :
                      m[i].role = "human" => (i < Len(m) /\ m[i + 1].role = "ai")

\* the state of session s holds recorded turns: those of its running
\* request, or those of its last request when that one was answered
HoldsTurns(s) ==
    /\ "messages" \in DOMAIN state[s]
    /\ node[s] = "idle" => response[s].status = 200

\* C20: the history of a session is append-only and never reset between
\* its requests: whatever step the program takes, the turns the session's
\* state held before the step are still there after it, in order and at the
\* front, so that the history the pipeline sees at turn n+1 contains every
\* turn recorded during turns 1..n.
C20_HistoryAppendOnly ==
    [][\A s \in Sessions :
          HoldsTurns(s) =>
              /\ "messages" \in DOMAIN state'[s]
              /\ IsPrefix(state[s].messages, state'[s].messages)]_vars

(***************************************************************************)
(* Vocabulary of the properties of sessions.                               *)
(***************************************************************************)
\* everything the program holds for session s
SessionView(s) ==
    <<node[s], state[s], raised[s], log[s], llmCalls[s], response[s], resolved[s]>>

C23_IntentInEnum ==
    \A s \in Sessions :
        /\ "intent" \in DOMAIN state[s] => state[s].intent \in IntentEnum
        /\ response[s].status = 200 => response[s].intent \in IntentEnum

\* C26: the current question reaches the language model once per model
\* call: the history handed to the call ends with an earlier turn, not with
\* the human turn of the current question, which is passed separately.
C26_QuestionOnlyOnce ==
    \A s \in Sessions :
        \A i \in 1..Len(llmCalls[s]) :
            LET history == llmCalls[s][i].messages
            IN  history # <<>> =>
                    history[Len(history)] #
                        HumanMessage(QuestionText(llmCalls[s][i].question))

(***************************************************************************)
(* Vocabulary of the order of the lookups.                                 *)
(***************************************************************************)
\* the data sources, one answer per name, under which the resolver calls of
\* the run of s returned what they did: the data source did not change
\* during the run
DataSources(s) ==
    LET answers(n) ==
            { x \in PipelineSources :
                \A i \in CallsFor(s, n) :
                    fetch_country_info(n, x.exact, x.partial).result = resolved[s][i].result }
    IN  { src \in [NonEmptyNames(state[s].countries) -> PipelineSources] :
            \A n \in DOMAIN src : src[n] \in answers(n) }

\* the orders in which n lookups may run
Orders(n) == { p \in [1..n -> 1..n] : \A i, j \in 1..n : p[i] = p[j] => i = j }

\* the fetch results invoke_tool collects when it goes through the country
\* list of the state in order p, against data source src
CollectedInOrder(st, src, p) ==
    LET countries == [i \in 1..Len(st.countries) |-> st.countries[p[i]]]
        picks == [i \in 1..Len(countries) |->
                     IF countries[i] \in DOMAIN src THEN src[countries[i]]
                     ELSE CHOOSE x \in PipelineSources : TRUE]
    IN  invoke_tool(Merge(st, [countries |-> countries]), picks).update.tool_outputs

\* the answer synthesize_answer gives from fetch results out, its model
\* call answering
AnswerFrom(st, out) ==
    synthesize_answer(Merge(st, [tool_outputs |-> out]), TRUE).update.final_answer

\* a dict as a mapping, and a list as the set of its entries
AsMapping(d) == { d[k] : k \in 1..Len(d) }

\* invoke_tool has just returned from its loop: synthesize_answer is next
JustResolved(s) == Resolving(s) /\ node[s] = "synthesize_answer"

SameEntries(a, b) ==
    /\ a.kind = b.kind
    /\ a.kind = "generated" =>
          (a.prompt = b.prompt /\ AsMapping(a.data) = AsMapping(b.data))
    /\ "errors" \in DOMAIN a => AsMapping(a.errors) = AsMapping(b.errors)

ConsecutiveCalls(i) ==
    /\ i + 1 <= Len(callLog)
    /\ callLog[i].event = "call"
    /\ callLog[i + 1].event = "call"
    /\ callLog[i].name = callLog[i + 1].name

\* C24 as stated: two consecutive calls of the memoized fetch_country_info
\* with the same name, the first one not served from the cache and no cache
\* clear in between, issue one data-source request in total (the second
\* call issues none) and return equal results.
C24_OneRequestForTwoCalls ==
    \A i \in 1..Len(callLog) :
        (ConsecutiveCalls(i) /\ ~callLog[i].hit) =>
            /\ Len(callLog[i].requests) + Len(callLog[i + 1].requests) = 1
            /\ callLog[i + 1].requests = <<>>
            /\ callLog[i + 1].result = callLog[i].result

\* C24, amended: of two consecutive calls of the memoized
\* fetch_country_info with the same name, no cache clear in between, the
\* second issues no data-source request and returns the result of the
\* first; the requests of the two calls together are those of the first:
\* one when the exact query answers with a record, two when the resolver
\* goes on to the partial query.
C24_SecondCallFromCache ==
    \A i \in 1..Len(callLog) :
        ConsecutiveCalls(i) =>
            /\ callLog[i + 1].hit
            /\ callLog[i + 1].requests = <<>>
            /\ callLog[i + 1].result = callLog[i].result
            /\ ~callLog[i].hit =>
                  /\ callLog[i].requests \in { <<"exact">>, <<"exact", "partial">> }
                  /\ ( /\ source.exact.kind = "response"
                       /\ source.exact.status = 200
                       /\ source.exact.body.kind = "list"
                       /\ source.exact.body.items # <<>> ) =>
                        callLog[i].requests = <<"exact">>

\* the first call went on to the partial query and found the country
\* there, the second was served from the cache
C24_Witness ==
    /\ ConsecutiveCalls(1)
    /\ callLog[1].requests = <<"exact", "partial">>
    /\ callLog[1].result.status = "success"
    /\ callLog[2].hit
    /\ callLog[2].result = callLog[1].result

====
